---- MODULE Spec2Model ----
(***************************************************************************)
(* Model of package xgo (goldic/xgo): the panic-to-error helpers Require,  *)
(* OK/NoErr/Val, Catch/Recover, Call, Go and Async, in the three revisions *)
(* of the file that the repository holds:                                  *)
(*   "xgo.go"   : src/xgo.go            (Catch, errors.Join, %w wrapping)  *)
(*   "part_001" : src/unnamed/part_001  (Recover, keep the first fault)    *)
(*   "part_002" : src/unnamed/part_002  (as part_001, NoErr written out)   *)
(*                                                                         *)
(* Go values are records [type, msg, num, wraps]:                          *)
(*   type  : the dynamic type ("nil" for the nil interface),               *)
(*   msg   : text as a sequence of tokens (a string's content, or what an  *)
(*           error's Error() returns),                                     *)
(*   num   : the number of an int,                                         *)
(*   wraps : the interface values an error wraps (wrapError: 1,            *)
(*           joinError: n).                                                *)
(* An interface variable is the two machine words [tab, data]: the type    *)
(* word and the data word.  A store to it is two word stores, so an        *)
(* unsynchronised store can be seen, and can end, half done.               *)
(***************************************************************************)
EXTENDS Integers, Sequences, FiniteSets, TLC

\* Largest number of units of work handed to one Async call.
MaxUnits == 2

(***************************************************************************)
(* Values                                                                  *)
(***************************************************************************)
NilObj == [type |-> "nil", msg |-> <<>>, num |-> 0, wraps |-> <<>>]

NilIface == [tab |-> "nil", data |-> NilObj]

\* The interface value holding v: both words agree.
Iface(v) == [tab |-> v.type, data |-> v]

\* Both words of an interface value come from one store.
Valid(i) == i.tab = i.data.type

\* Two caller-defined error values of different dynamic types.
ErrA == [type |-> "*app.ErrA", msg |-> <<"a failed">>, num |-> 0, wraps |-> <<>>]

ErrB == [type |-> "app.ErrB", msg |-> <<"b failed">>, num |-> 0, wraps |-> <<>>]

\* Payloads that are not errors: a string and an int.
StrBoom == [type |-> "string", msg |-> <<"boom">>, num |-> 0, wraps |-> <<>>]

Int42 == [type |-> "int", msg |-> <<>>, num |-> 42, wraps |-> <<>>]

\* What the runtime raises for panic(nil) from Go 1.21 on.
PanicNilError == [type |-> "*runtime.PanicNilError",
                  msg |-> <<"panic called with nil argument (obsolete: use GODEBUG=panicnil=1)">>,
                  num |-> 0, wraps |-> <<>>]

\* r.(error): the types that implement the error interface.
IsError(v) == v.type \notin {"nil", "string", "int"}

IsNil(v) == v.type = "nil"

(***************************************************************************)
(* package fmt and package errors                                          *)
(***************************************************************************)
Digit(d) == CASE d = 0 -> "0" [] d = 1 -> "1" [] d = 2 -> "2" [] d = 3 -> "3"
              [] d = 4 -> "4" [] d = 5 -> "5" [] d = 6 -> "6" [] d = 7 -> "7"
              [] d = 8 -> "8" [] d = 9 -> "9"

RECURSIVE Itoa(_)
Itoa(n) == IF n < 10 THEN <<Digit(n)>> ELSE Itoa(n \div 10) \o <<Digit(n % 10)>>

\* fmt's %v of a value: a string prints as itself, an int in decimal, nil as
\* <nil>, and an error as what its Error method returns.
Format(v) == CASE v.type = "nil"    -> <<"<nil>">>
               [] v.type = "string" -> v.msg
               [] v.type = "int"    -> Itoa(v.num)
               [] OTHER             -> v.msg

\* errors.New(s)
ErrorsNew(s) == [type |-> "*errors.errorString", msg |-> s, num |-> 0, wraps |-> <<>>]

\* fmt.Errorf("%v", r): no %w verb, so the result is errors.New of the text.
ErrorfV(r) == ErrorsNew(Format(r))

\* fmt's output for the verb %w on an operand that is not an error.
BadVerb(x) == IF IsNil(x) THEN <<"%!w(", "<nil>", ")">>
              ELSE <<"%!w(", x.type, "=">> \o Format(x) \o <<")">>

\* fmt.Errorf("%w\n\t%s:%d", x, file, line): an error operand is wrapped
\* (Unwrap returns it); any other operand leaves only fmt's bad-verb text.
ErrorfW(x, loc) ==
    IF IsError(x)
    THEN [type |-> "*fmt.wrapError", msg |-> Format(x) \o <<"\n\t", loc>>,
          num |-> 0, wraps |-> <<Iface(x)>>]
    ELSE ErrorsNew(BadVerb(x) \o <<"\n\t", loc>>)

\* errors.Join(a, b): nil operands are dropped; nil when none is left.  The
\* text is computed by Error() from the operands, so msg holds nothing.
ErrorsJoin(a, b) ==
    LET errs == SelectSeq(<<a, b>>, LAMBDA i : i.tab # "nil")
    IN  IF errs = <<>> THEN NilIface
        ELSE Iface([type |-> "*errors.joinError", msg |-> <<>>, num |-> 0, wraps |-> errs])

\* The values errors.Is can find in an interface value: the value itself
\* and, through Unwrap() error and Unwrap() []error, all it wraps.  Nothing
\* can be said of an interface whose words disagree.
RECURSIVE Tree(_)
Tree(i) ==
    IF i.tab = "nil" \/ ~Valid(i) THEN {}
    ELSE {i.data} \cup UNION {Tree(i.data.wraps[k]) : k \in 1..Len(i.data.wraps)}

\* sub occurs in s as a run of consecutive tokens.
Contains(s, sub) ==
    \E k \in 0..(Len(s) - Len(sub)) : SubSeq(s, k + 1, k + Len(sub)) = sub

(***************************************************************************)
(* Panics                                                                  *)
(***************************************************************************)
\* The panic a call leaves in flight: none, or one carrying a value.
NoPanic == [active |-> FALSE, val |-> NilObj]

Panic(v) == [active |-> TRUE, val |-> v]

\* The runtime's start of a panic.  panic(nil) keeps the nil value when the
\* program is built with the language version of go.mod at 1.20 or below (or
\* GODEBUG=panicnil=1); otherwise the runtime raises a *PanicNilError.
gopanic(p, legacy) ==
    IF p.active /\ IsNil(p.val) /\ ~legacy THEN Panic(PanicNilError) ELSE p

\* recover() in a deferred call: the value of the panic in flight, nil when
\* there is none.
recover(p) == IF p.active THEN p.val ELSE NilObj

(***************************************************************************)
(* The library's guards.  Each operator gives the panic the call raises.   *)
(***************************************************************************)
\* runtime.Caller's file and line, as one token.
CallerLoc == "caller.go:7"

\* src/xgo.go
noErr(err) == IF ~IsNil(err) THEN Panic(ErrorfW(err, CallerLoc)) ELSE NoPanic

OK(err) == noErr(err)

NoErr(err) == noErr(err)

Val(err) == noErr(err)

RequireNegated(statement, err) ==
    IF statement THEN Panic(ErrorfW(err, CallerLoc)) ELSE NoPanic

Require(statement, err) ==
    IF ~statement THEN Panic(ErrorfW(err, CallerLoc)) ELSE NoPanic

\* src/unnamed/part_001 and part_002
OK1(err) == IF ~IsNil(err) THEN Panic(err) ELSE NoPanic

NoErr1(err) == OK1(err)

NoErr2(err) == IF ~IsNil(err) THEN Panic(err) ELSE NoPanic

Val1(err) == OK1(err)

Require1(statement, err) ==
    IF ~statement
    THEN IF IsError(err) THEN Panic(err) ELSE Panic(ErrorfV(err))
    ELSE NoPanic

(***************************************************************************)
(* Units of work: what a func() handed to Call, Go or Async does.          *)
(***************************************************************************)
Unit(o, s, a) == [op |-> o, stmt |-> s, arg |-> a]

\* Payloads a unit panics with or hands to Require.
Payloads == {ErrA, ErrB, StrBoom, Int42, NilObj}

\* Units handed to Call and Go.
Units ==
    {Unit("return", TRUE, NilObj), Unit("hang", TRUE, NilObj)}
    \cup {Unit("panic", TRUE, p) : p \in Payloads}
    \cup {Unit("Require", s, p) : s \in BOOLEAN, p \in Payloads \ {ErrB}}
    \cup {Unit(o, TRUE, x) : o \in {"OK", "NoErr", "Val"}, x \in {NilObj, ErrA}}

\* Units handed to Async.
AsyncUnits ==
    {Unit("return", TRUE, NilObj), Unit("hang", TRUE, NilObj)}
    \cup {Unit("panic", TRUE, p) : p \in {ErrA, ErrB, NilObj}}

Revisions == {"xgo.go", "part_001", "part_002"}

\* The panic that running unit f raises in revision r (the statement the
\* unit executes, before the runtime starts the panic).
RunFn(f, r) ==
    CASE f.op = "return"  -> NoPanic
      [] f.op = "panic"   -> Panic(f.arg)
      [] f.op = "Require" -> IF r = "xgo.go" THEN Require(f.stmt, f.arg)
                             ELSE Require1(f.stmt, f.arg)
      [] f.op = "OK"      -> IF r = "xgo.go" THEN OK(f.arg) ELSE OK1(f.arg)
      [] f.op = "NoErr"   -> IF r = "xgo.go" THEN NoErr(f.arg)
                             ELSE IF r = "part_001" THEN NoErr1(f.arg) ELSE NoErr2(f.arg)
      [] f.op = "Val"     -> IF r = "xgo.go" THEN Val(f.arg) ELSE Val1(f.arg)

(***************************************************************************)
(* Catch and Recover: the value stored for a recovered panic value r.      *)
(***************************************************************************)
CatchValueFormatted(r) == ErrorfV(r)

\* src/xgo.go: e, ok := r.(error); if !ok { e = fmt.Errorf("%v", r) }
CatchValue(r) == IF IsError(r) THEN r ELSE ErrorfV(r)

\* part_001: if e, ok := r.(error); ok { *err = e } else { *err = fmt.Errorf("%v", r) }
RecoverValue(r) == IF IsError(r) THEN r ELSE ErrorfV(r)

(***************************************************************************)
(* Deferred calls, in the order the defer statements run; they are called  *)
(* last first.                                                             *)
(***************************************************************************)
CallDefers == <<"Catch">>

CallDefers1 == <<"Recover">>

\* go Call(fn): the goroutine runs Call, with Call's deferred calls.
GoDefersBare(callDefers) == <<>>

GoDefers(callDefers) == callDefers

AsyncDefersSwapped == <<"Catch", "wg.Done">>

AsyncDefers == <<"wg.Done", "Catch">>

AsyncDefers1 == <<"wg.Done", "Recover">>

\* wg.Add(len(fn))
AddDeltaOffByOne(f) == Len(f) + 1

AddDelta(f) == Len(f)

(***************************************************************************)
(* State                                                                   *)
(***************************************************************************)
VARIABLES
    rev,        \* the revision of the file that is built
    panicnil,   \* TRUE: the build keeps panic(nil)'s nil value (GODEBUG panicnil=1)
    op,         \* the entry point the caller calls: "Call", "Go" or "Async"
    fn,         \* the units of work handed to it, in order
    pc,         \* the caller: "call", "in_call", "spawn", "wait", "returned"
    next,       \* Async's loop: the unit the next go statement launches
    upc,        \* each unit: "idle", "fn", "defer", "join", "store", "exit"
    panicking,  \* each unit's goroutine: the panic in flight
    e,          \* each unit: Catch's local e (Recover: the value to store)
    stored,     \* each unit: the words of *err = e already written
    defers,     \* each unit's goroutine: the deferred calls not yet run
    err,        \* the named result err of Call or Async, shared through &err
    wg,         \* Async's sync.WaitGroup counter
    result,     \* the value the caller received
    returns,    \* how many times the entry point returned to the caller
    crashed     \* a panic left a goroutine unrecovered, or reached the caller

vars == <<rev, panicnil, op, fn, pc, next, upc, panicking, e, stored, defers,
          err, wg, result, returns, crashed>>

\* The caller holds no value: the entry point has not returned one.
NoValue == [tab |-> "-", data |-> NilObj]

N == Len(fn)

\* part_002 differs from part_001 only in the body of NoErr, and the build's
\* treatment of panic(nil) shows only to a unit that calls panic(nil): the
\* other revisions and builds are enumerated where a unit can tell them apart.
Init ==
    /\ op \in {"Call", "Go", "Async"}
    /\ fn \in IF op = "Async"
              THEN UNION {[1..n -> AsyncUnits] : n \in 0..MaxUnits}
              ELSE [1..1 -> Units]
    /\ rev \in IF \E i \in 1..Len(fn) : fn[i].op = "NoErr"
               THEN Revisions ELSE Revisions \ {"part_002"}
    /\ panicnil \in IF \E i \in 1..Len(fn) : fn[i].op = "panic" /\ IsNil(fn[i].arg)
                    THEN BOOLEAN ELSE {FALSE}
    /\ pc = "call"
    /\ next = 1
    /\ upc = [i \in 1..Len(fn) |-> "idle"]
    /\ panicking = [i \in 1..Len(fn) |-> NoPanic]
    /\ e = [i \in 1..Len(fn) |-> NilIface]
    /\ stored = [i \in 1..Len(fn) |-> {}]
    /\ defers = [i \in 1..Len(fn) |-> <<>>]
    /\ err = NilIface
    /\ wg = 0
    /\ result = NoValue
    /\ returns = 0
    /\ crashed = FALSE

\* The deferred calls of Call and of Async's goroutines in the built revision.
DefersOfCall == IF rev = "xgo.go" THEN CallDefers ELSE CallDefers1

DefersOfAsync == IF rev = "xgo.go" THEN AsyncDefers ELSE AsyncDefers1

Top(s) == s[Len(s)]

Pop(s) == SubSeq(s, 1, Len(s) - 1)

(***************************************************************************)
(* The caller                                                              *)
(***************************************************************************)
\* Call(fn): the caller's goroutine enters Call; defer Catch(&err) is
\* registered and fn() is about to run.
Call ==
    /\ op = "Call" /\ pc = "call"
    /\ pc' = "in_call"
    /\ upc' = [upc EXCEPT ![1] = "fn"]
    /\ defers' = [defers EXCEPT ![1] = DefersOfCall]
    /\ UNCHANGED <<rev, panicnil, op, fn, next, panicking, e, stored, err, wg,
                   result, returns, crashed>>

\* Go(fn): go Call(fn) starts a goroutine that runs Call, and Go returns.
Go ==
    /\ op = "Go" /\ pc = "call"
    /\ pc' = "returned"
    /\ returns' = returns + 1
    /\ upc' = [upc EXCEPT ![1] = "fn"]
    /\ defers' = [defers EXCEPT ![1] = GoDefers(DefersOfCall)]
    /\ UNCHANGED <<rev, panicnil, op, fn, next, panicking, e, stored, err, wg,
                   result, crashed>>

\* Async: var wg sync.WaitGroup; wg.Add(len(fn))
AsyncAdd ==
    /\ op = "Async" /\ pc = "call"
    /\ wg' = wg + AddDelta(fn)
    /\ pc' = "spawn"
    /\ UNCHANGED <<rev, panicnil, op, fn, next, upc, panicking, e, stored,
                   defers, err, result, returns, crashed>>

\* Async: one turn of for _, f := range fn { go func(fn func()) {...}(f) },
\* or the end of the loop.
AsyncGo ==
    /\ op = "Async" /\ pc = "spawn"
    /\ IF next <= N
       THEN /\ upc' = [upc EXCEPT ![next] = "fn"]
            /\ defers' = [defers EXCEPT ![next] = DefersOfAsync]
            /\ next' = next + 1
            /\ pc' = pc
       ELSE /\ pc' = "wait"
            /\ UNCHANGED <<upc, defers, next>>
    /\ UNCHANGED <<rev, panicnil, op, fn, panicking, e, stored, err, wg,
                   result, returns, crashed>>

\* Async: wg.Wait() unblocks when the counter is zero; return (err).
AsyncWait ==
    /\ op = "Async" /\ pc = "wait"
    /\ wg = 0
    /\ result' = err
    /\ returns' = returns + 1
    /\ pc' = "returned"
    /\ UNCHANGED <<rev, panicnil, op, fn, next, upc, panicking, e, stored,
                   defers, err, wg, crashed>>

(***************************************************************************)
(* A unit's goroutine                                                      *)
(***************************************************************************)
\* fn() runs to its end: it returns, or it panics.  A unit that hangs takes
\* no step.
Fn(i) ==
    /\ upc[i] = "fn" /\ fn[i].op # "hang"
    /\ panicking' = [panicking EXCEPT ![i] = gopanic(RunFn(fn[i], rev), panicnil)]
    /\ upc' = [upc EXCEPT ![i] = "defer"]
    /\ UNCHANGED <<rev, panicnil, op, fn, pc, next, e, stored, defers, err, wg,
                   result, returns, crashed>>

\* Catch(&err), src/xgo.go, up to its first read of *err:
\*   if r := recover(); r != nil && err != nil { e := ...; if *err != nil
Catch(i) ==
    /\ upc[i] = "defer" /\ defers[i] # <<>> /\ Top(defers[i]) = "Catch"
    /\ panicking' = [panicking EXCEPT ![i] = NoPanic]
    /\ LET r == recover(panicking[i])
       IN  IF ~IsNil(r)
           THEN /\ e' = [e EXCEPT ![i] = Iface(CatchValue(r))]
                /\ upc' = [upc EXCEPT ![i] = IF err.tab # "nil" THEN "join" ELSE "store"]
                /\ UNCHANGED defers
           ELSE /\ defers' = [defers EXCEPT ![i] = Pop(defers[i])]
                /\ UNCHANGED <<e, upc>>
    /\ UNCHANGED <<rev, panicnil, op, fn, pc, next, stored, err, wg, result,
                   returns, crashed>>

\* Catch: e = errors.Join(*err, e), the second read of *err.
CatchJoin(i) ==
    /\ upc[i] = "join"
    /\ e' = [e EXCEPT ![i] = ErrorsJoin(err, e[i])]
    /\ upc' = [upc EXCEPT ![i] = "store"]
    /\ UNCHANGED <<rev, panicnil, op, fn, pc, next, panicking, stored, defers,
                   err, wg, result, returns, crashed>>

\* Recover(&err), part_001 and part_002, up to its read of *err:
\*   if r := recover(); r != nil && err != nil && *err == nil {
Recover(i) ==
    /\ upc[i] = "defer" /\ defers[i] # <<>> /\ Top(defers[i]) = "Recover"
    /\ panicking' = [panicking EXCEPT ![i] = NoPanic]
    /\ LET r == recover(panicking[i])
       IN  IF ~IsNil(r) /\ err.tab = "nil"
           THEN /\ e' = [e EXCEPT ![i] = Iface(RecoverValue(r))]
                /\ upc' = [upc EXCEPT ![i] = "store"]
                /\ UNCHANGED defers
           ELSE /\ defers' = [defers EXCEPT ![i] = Pop(defers[i])]
                /\ UNCHANGED <<e, upc>>
    /\ UNCHANGED <<rev, panicnil, op, fn, pc, next, stored, err, wg, result,
                   returns, crashed>>

\* *err = e: the store of one word w of the interface value, in either
\* order; after the second word the deferred call returns.
Store(i, w) ==
    /\ upc[i] = "store" /\ w \notin stored[i]
    /\ err' = IF w = "tab" THEN [err EXCEPT !.tab = e[i].tab]
                           ELSE [err EXCEPT !.data = e[i].data]
    /\ IF stored[i] # {}
       THEN /\ stored' = [stored EXCEPT ![i] = {}]
            /\ upc' = [upc EXCEPT ![i] = "defer"]
            /\ defers' = [defers EXCEPT ![i] = Pop(defers[i])]
       ELSE /\ stored' = [stored EXCEPT ![i] = {w}]
            /\ UNCHANGED <<upc, defers>>
    /\ UNCHANGED <<rev, panicnil, op, fn, pc, next, panicking, e, wg, result,
                   returns, crashed>>

\* wg.Done(): the counter goes down by one; below zero it panics.
WgDone(i) ==
    /\ upc[i] = "defer" /\ defers[i] # <<>> /\ Top(defers[i]) = "wg.Done"
    /\ defers' = [defers EXCEPT ![i] = Pop(defers[i])]
    /\ IF wg > 0
       THEN wg' = wg - 1 /\ UNCHANGED crashed
       ELSE crashed' = TRUE /\ UNCHANGED wg
    /\ UNCHANGED <<rev, panicnil, op, fn, pc, next, upc, panicking, e, stored,
                   err, result, returns>>

\* The deferred calls are done.  A panic still in flight leaves the function
\* (Call: into its caller; a goroutine: the process dies).  Otherwise the
\* goroutine's function returns; Call hands err to its caller, and under Go
\* that value is dropped.
Return(i) ==
    /\ upc[i] = "defer" /\ defers[i] = <<>>
    /\ upc' = [upc EXCEPT ![i] = "exit"]
    /\ IF panicking[i].active
       THEN crashed' = TRUE /\ UNCHANGED <<pc, result, returns>>
       ELSE IF op = "Call"
            THEN pc' = "returned" /\ result' = err /\ returns' = returns + 1
                 /\ UNCHANGED crashed
            ELSE UNCHANGED <<pc, result, returns, crashed>>
    /\ UNCHANGED <<rev, panicnil, op, fn, next, panicking, e, stored, defers,
                   err, wg>>

Next ==
    \/ Call
    \/ Go
    \/ AsyncAdd
    \/ AsyncGo
    \/ AsyncWait
    \/ \E i \in 1..N : Fn(i)
    \/ \E i \in 1..N : Catch(i)
    \/ \E i \in 1..N : CatchJoin(i)
    \/ \E i \in 1..N : Recover(i)
    \/ \E i \in 1..N : \E w \in {"tab", "data"} : Store(i, w)
    \/ \E i \in 1..N : WgDone(i)
    \/ \E i \in 1..N : Return(i)

Spec == Init /\ [][Next]_vars

\* Async alone, for what it does in the end: the units return, hang, or
\* panic with one of two errors.
LiveUnits ==
    {Unit("return", TRUE, NilObj), Unit("hang", TRUE, NilObj),
     Unit("panic", TRUE, ErrA), Unit("panic", TRUE, ErrB)}

InitAsync == Init /\ op = "Async" /\ \A i \in 1..Len(fn) : fn[i] \in LiveUnits

NextAsync ==
    \/ AsyncAdd
    \/ AsyncGo
    \/ AsyncWait
    \/ \E i \in 1..N : Fn(i)
    \/ \E i \in 1..N : Catch(i)
    \/ \E i \in 1..N : CatchJoin(i)
    \/ \E i \in 1..N : Recover(i)
    \/ \E i \in 1..N : \E w \in {"tab", "data"} : Store(i, w)
    \/ \E i \in 1..N : WgDone(i)
    \/ \E i \in 1..N : Return(i)

\* The Go scheduler leaves no runnable goroutine waiting for ever: while
\* some goroutine can take a step, a step is taken.
FairSpec == InitAsync /\ [][NextAsync]_vars /\ WF_vars(NextAsync)

(***************************************************************************)
(* Properties                                                              *)
(***************************************************************************)
\* Unit i's fn() has run and ended in a panic.
Faulted(i) == upc[i] \notin {"idle", "fn"} /\ RunFn(fn[i], rev).active

\* The fault that Catch or Recover captures for unit i's panic.
Captured(i) ==
    LET r == recover(gopanic(RunFn(fn[i], rev), panicnil))
    IN  IF rev = "xgo.go" THEN CatchValue(r) ELSE RecoverValue(r)

\* Unit i's fn() and every deferred call of its goroutine have run.
Finished(i) == upc[i] \in {"defer", "exit"} /\ defers[i] = <<>>

Returned(o) == op = o /\ pc = "returned"

\* The unit aborts with the error value f.arg as payload.
AbortsWithError(f) ==
    \/ f.op = "panic" /\ IsError(f.arg)
    \/ f.op \in {"OK", "NoErr", "Val"} /\ ~IsNil(f.arg)

NoHang == \A i \in 1..N : fn[i].op # "hang"

\* C1: once Async has returned, every launched unit has finished, its
\* deferred recovery and the store to the shared err included: no panic is
\* in flight, no store is half done, and the value Async returned is the
\* value err still holds.
C1_StrictJoin ==
    Returned("Async") =>
        /\ \A i \in 1..N : Finished(i) /\ ~panicking[i].active /\ stored[i] = {}
        /\ result = err

C1_Witness ==
    Returned("Async") /\ N = 2 /\ \A i \in 1..N : Faulted(i) /\ upc[i] = "defer"

\* C2: in src/xgo.go, when two units abort with distinct errors, the error
\* Async returns lets the caller find both of them.
C2_JoinKeepsEveryFault ==
    (Returned("Async") /\ rev = "xgo.go") =>
        \A i, j \in 1..N :
            (/\ i # j
             /\ fn[i].op = "panic" /\ IsError(fn[i].arg)
             /\ fn[j].op = "panic" /\ IsError(fn[j].arg)
             /\ fn[i].arg # fn[j].arg)
            => fn[i].arg \in Tree(result) /\ fn[j].arg \in Tree(result)

\* C3: Async returns nil when no unit faulted (also for no units at all), a
\* non-nil error when some unit faulted, and when exactly one unit faulted
\* the returned error refers to that unit's fault.
C3_AsyncNilIffNoFault ==
    Returned("Async") =>
        /\ (\A i \in 1..N : ~Faulted(i)) => result = NilIface
        /\ (\E i \in 1..N : Faulted(i)) => result.tab # "nil"
        /\ \A i \in 1..N :
              (Faulted(i) /\ \A j \in 1..N : j # i => ~Faulted(j))
              => Captured(i) \in Tree(result)

\* C4: Call returns once, with one value; no panic of fn leaves Call; the
\* value is nil when fn returned and the captured fault, which is not nil,
\* when fn panicked.
C4_CallIsFaultBoundary ==
    op = "Call" =>
        /\ ~crashed
        /\ returns <= 1
        /\ pc = "returned" =>
              /\ returns = 1
              /\ ~Faulted(1) => result = NilIface
              /\ Faulted(1) => result.tab # "nil" /\ result = Iface(Captured(1))

\* C5: when the unit aborts with an error value e as payload, the error Call
\* returns has e as its cause: errors.Is finds e in it.
C5_CauseRoundTrip ==
    (Returned("Call") /\ AbortsWithError(fn[1])) =>
        Valid(result) /\ fn[1].arg \in Tree(result)

C5_Witness ==
    /\ Returned("Call") /\ rev = "xgo.go" /\ fn[1] = Unit("OK", TRUE, ErrA)
    /\ result.tab = "*fmt.wrapError"

\* C6: when the unit aborts with a payload p that is not an error, Call
\* returns a non-nil error whose text is the %v formatting of p.
C6_NonErrorPayloadText ==
    (Returned("Call") /\ fn[1].op = "panic" /\ ~IsError(fn[1].arg)) =>
        /\ result.tab # "nil"
        /\ Valid(result)
        /\ Format(result.data) = Format(fn[1].arg)

\* C7: Require(true, x) raises no panic; Require(false, x) always does, and
\* Call then returns a non-nil error derived from x: x itself or an error
\* wrapping x when x is an error, and otherwise an error that wraps nothing
\* and whose text holds the %v formatting of x.
C7_RequireContract ==
    \A i \in 1..N :
        fn[i].op = "Require" =>
            /\ (upc[i] = "defer" /\ defers[i] = DefersOfCall)
                  => (panicking[i].active <=> ~fn[i].stmt)
            /\ (Returned("Call") /\ fn[i].stmt) => result = NilIface
            /\ (Returned("Call") /\ ~fn[i].stmt) =>
                  /\ result.tab # "nil" /\ Valid(result)
                  /\ IsError(fn[i].arg) => fn[i].arg \in Tree(result)
                  /\ ~IsError(fn[i].arg) =>
                        /\ result.data.wraps = <<>>
                        /\ Contains(Format(result.data), Format(fn[i].arg))

C7_Witness ==
    /\ Returned("Call") /\ rev = "xgo.go" /\ fn[1] = Unit("Require", FALSE, StrBoom)
    /\ result.tab = "*errors.errorString"

\* C8: Go returns at once, whatever fn does, and fn's fault stays on the
\* goroutine: it kills nothing and no value reaches Go's caller.
C8_GoNeverBlocks ==
    op = "Go" =>
        /\ pc = "call" => ENABLED Go
        /\ ~crashed
        /\ result = NoValue
        /\ returns <= 1

C8_Witness ==
    Returned("Go") /\ panicking[1].active /\ upc[1] = "defer"

\* C9: when every launched unit ends, by returning or by panicking, Async
\* returns at last; when some unit never ends, Async never returns; and
\* every unit's wg.Done runs once, never taking the counter below zero.
C9_AsyncBlocksUntilAllDone ==
    /\ (op = "Async" /\ NoHang) ~> (pc = "returned")
    /\ []((op = "Async" /\ ~NoHang) => pc # "returned")
    /\ [](op = "Async" => ~crashed /\ wg >= 0)

C9_Witness ==
    /\ Returned("Async") /\ N = 2
    /\ Faulted(1) /\ ~Faulted(2) /\ upc[1] = "exit" /\ upc[2] = "exit"

\* C10: in part_001 and part_002, when two units abort with distinct errors,
\* Async returns exactly one of the two captured faults.
C10_KeepOneOfTwo ==
    (/\ Returned("Async") /\ rev # "xgo.go" /\ N = 2
     /\ fn[1].op = "panic" /\ IsError(fn[1].arg)
     /\ fn[2].op = "panic" /\ IsError(fn[2].arg)
     /\ fn[1].arg # fn[2].arg)
    => result \in {Iface(fn[1].arg), Iface(fn[2].arg)}

====
